---- MODULE Spec2Model ----
(***************************************************************************)
(* Model of the DVSA MOT relay: the token cache and getAccessToken /        *)
(* getAccessTokenAlternative of server.js, the /api/mot/:registration       *)
(* handler of server.js, and the scope testers of test-scopes.js            *)
(* (GET /test-scopes/:registration) and of the form-based tester            *)
(* (POST /test-scope).                                                      *)
(*                                                                          *)
(* One step of the model is one run of JavaScript between two awaits: the   *)
(* event loop runs such a piece to completion before any other callback.    *)
(***************************************************************************)
EXTENDS Integers, Sequences, FiniteSets, TLC

(***************************************************************************)
(* Bounds of the model.                                                     *)
(***************************************************************************)
\* Date.now() when the first request arrives, in milliseconds.
T0 == 100000
\* Milliseconds by which the clock advances in one step.
Tick == 5000
\* The clock stops admitting new requests MaxTicks ticks after T0.
MaxTicks == 1
\* Number of requests served by the server in one behaviour.
MaxRequests == 3
\* The concurrently served requests of the server.
Lookups == {"L1", "L2"}

(***************************************************************************)
(* Program constants.                                                       *)
(***************************************************************************)
SafetyMarginMs == 60000
MsPerSecond == 1000
TokenTimeoutMs == 10000
ApiTimeoutMs == 15000

(***************************************************************************)
(* JavaScript values.  A number is Num(n); null, undefined and NaN are      *)
(* distinct values of the same shape, so that they can be compared.         *)
(***************************************************************************)
Num(n) == [kind |-> "num", val |-> n]
NullV == [kind |-> "null", val |-> 0]
UndefV == [kind |-> "undefined", val |-> 0]
NaNV == [kind |-> "NaN", val |-> 0]

\* x * k for a number k: undefined * k is NaN, null * k is 0.
JsMul(x, k) ==
  CASE x.kind = "num" -> Num(x.val * k)
    [] x.kind = "null" -> Num(0)
    [] OTHER -> NaNV

\* x + y and x - k on numbers; NaN is absorbing.
JsAdd(x, y) == IF x.kind = "num" /\ y.kind = "num" THEN Num(x.val + y.val) ELSE NaNV
JsSub(x, k) == IF x.kind = "num" THEN Num(x.val - k) ELSE NaNV

\* Truthiness of a number-like value: null, undefined, NaN and 0 are falsy.
NumTruthy(x) == x.kind = "num" /\ x.val # 0

\* n < x for a number n: every comparison with NaN is false.
JsLess(n, x) == x.kind = "num" /\ n < x.val

\* Tokens are strings; "null" and "undefined" stand for the JS values.
NullTok == "null"
UndefTok == "undefined"
Tokens == {"t1", "t2"}
TokTruthy(t) == t \notin {NullTok, UndefTok}

\* An optional value.
Some(x) == <<x>>
None == <<>>


(***************************************************************************)
(* Registration strings: sequences of one-character strings.                *)
(***************************************************************************)
UpperLetters == {"A", "B"}
Digits == {"1", "2"}
Whitespace == {" ", "\t"}

\* String.prototype.toUpperCase, one character at a time.
UpperChar(c) ==
  CASE c = "a" -> "A"
    [] c = "b" -> "B"
    [] OTHER -> c

toUpperCase(s) == [k \in 1..Len(s) |-> UpperChar(s[k])]

IsNotWhitespace(c) == c \notin Whitespace

\* s.replace(/\s/g, '')
StripWhitespace(s) == SelectSeq(s, IsNotWhitespace)

\* req.params.registration.toUpperCase().replace(/\s/g, '')
NormalizeRegistration(raw) == StripWhitespace(toUpperCase(raw))

\* req.params.reg.toUpperCase() of the browser-automation variants.
NormalizeReg(raw) == toUpperCase(raw)

\* A pattern is a sequence of <<character class, min, max>>, anchored at both
\* ends, as the five regular expressions of validateRegistration are.
Patterns ==
  << << <<UpperLetters, 2, 2>>, <<Digits, 2, 2>>, <<UpperLetters, 3, 3>> >>,
     << <<UpperLetters, 1, 1>>, <<Digits, 1, 3>>, <<UpperLetters, 3, 3>> >>,
     << <<UpperLetters, 3, 3>>, <<Digits, 1, 3>>, <<UpperLetters, 1, 1>> >>,
     << <<Digits, 1, 4>>, <<UpperLetters, 1, 3>> >>,
     << <<UpperLetters, 1, 3>>, <<Digits, 1, 4>> >> >>

RECURSIVE MatchFrom(_, _, _, _)
\* Does s from position si on match the pattern p from its element pi on?
MatchFrom(p, pi, s, si) ==
  IF pi > Len(p)
  THEN si = Len(s) + 1
  ELSE \E n \in p[pi][2]..p[pi][3] :
         /\ si + n - 1 <= Len(s)
         /\ \A k \in si..(si + n - 1) : s[k] \in p[pi][1]
         /\ MatchFrom(p, pi + 1, s, si + n)

\* patterns.some(pattern => pattern.test(registration))
validateRegistration(registration) ==
  \E k \in 1..Len(Patterns) : MatchFrom(Patterns[k], 1, registration, 1)

\* The raw registrations requests carry.
RegInputs ==
  { <<"a", "1">>, <<" ", "A", "\t", "1">>, <<"a", "a">> }

(***************************************************************************)
(* The token cache.                                                         *)
(***************************************************************************)
\* { accessToken: null, expiresAt: null }
EmptyCache == [accessToken |-> NullTok, expiresAt |-> NullV]

\* CacheUsable with the safety margin subtracted a second time at the check.
CacheUsableLate(cache, now) ==
  /\ TokTruthy(cache.accessToken)
  /\ NumTruthy(cache.expiresAt)
  /\ JsLess(now + SafetyMarginMs, cache.expiresAt)

\* tokenCache.accessToken && tokenCache.expiresAt && now < tokenCache.expiresAt
CacheUsable(cache, now) ==
  /\ TokTruthy(cache.accessToken)
  /\ NumTruthy(cache.expiresAt)
  /\ JsLess(now, cache.expiresAt)

\* StoredCache keeping one and the same token whatever the body holds.
StoredCacheFixedToken(now, body) ==
  [accessToken |-> "t1",
   expiresAt |-> JsSub(JsAdd(Num(now), JsMul(body.expires_in, MsPerSecond)),
                       SafetyMarginMs)]

\* The cache entry getAccessToken and getAccessTokenAlternative build from a
\* token response body; now is the instant the function passes.
StoredCache(now, body) ==
  [accessToken |-> body.access_token,
   expiresAt |-> JsSub(JsAdd(Num(now), JsMul(body.expires_in, MsPerSecond)),
                       SafetyMarginMs)]

\* GetAccessTokenNow reading the clock when the token is stored.
GetAccessTokenStoreTime(callStart, storeTime) == storeTime

\* The instant getAccessToken uses for expiresAt: its const now, read when the
\* call starts, before the token request is sent.
GetAccessTokenNow(callStart, storeTime) == callStart

\* The instant getAccessTokenAlternative uses: Date.now() when it stores.
AlternativeNow(callStart, storeTime) == storeTime

\* CacheAfterAuthError without the assignment that clears the cache.
CacheKeptOnAuthError(cache) == cache

\* The cache after the catch block of getAccessToken.
CacheAfterAuthError(cache) == EmptyCache

(***************************************************************************)
(* What the token endpoint and the vehicle-data endpoint may answer.        *)
(***************************************************************************)
\* expires_in, in seconds.
ExpiresInChoices == {60, 65}

WellFormedBodies ==
  [access_token : Tokens, expires_in : {Num(n) : n \in ExpiresInChoices}]

\* 2xx answers whose body lacks access_token, expires_in or both.
MalformedBodies ==
  { [access_token |-> UndefTok, expires_in |-> Num(65)],
    [access_token |-> "t1", expires_in |-> UndefV],
    [access_token |-> UndefTok, expires_in |-> UndefV] }

TokenBodies == WellFormedBodies \cup MalformedBodies

TokenErrorStatuses == {400, 401}
UpstreamStatuses == {200, 401, 403, 404, 429, 503}
Payloads == {"p1", "p2"}
\* error_description / message of an upstream error body, "none" when it has none.
ErrorBodies == {"none", "upstream detail"}

(***************************************************************************)
(* Errors.                                                                  *)
(***************************************************************************)
Msg(text, status) == [text |-> text, status |-> status]
NoMsg == Msg("absent", 0)

NoError ==
  [kind |-> "none", response |-> FALSE, status |-> 0, code |-> "none",
   data |-> "none", message |-> NoMsg]

\* The error axios rejects with on a non-2xx answer.
HttpError(status, data) ==
  [kind |-> "axios", response |-> TRUE, status |-> status, code |-> "ERR_BAD_REQUEST",
   data |-> data, message |-> Msg("Request failed with status code", status)]

\* The error axios rejects with when the connection fails.
NetworkError ==
  [kind |-> "axios", response |-> FALSE, status |-> 0, code |-> "ECONNREFUSED",
   data |-> "none", message |-> Msg("connect ECONNREFUSED", 0)]

\* The error axios rejects with when its timeout elapses.
TimeoutError ==
  [kind |-> "axios", response |-> FALSE, status |-> 0, code |-> "ECONNABORTED",
   data |-> "none", message |-> Msg("timeout exceeded", 0)]

\* AuthErrorOf without the branch for errors that have no response.
AuthErrorWithStatus(error) ==
  [kind |-> "Error", response |-> FALSE, status |-> 0, code |-> "none",
   data |-> "none", message |-> Msg("Authentication failed", error.status)]

\* The Error getAccessToken throws from its catch block.
AuthErrorOf(error) ==
  IF error.response
  THEN [kind |-> "Error", response |-> FALSE, status |-> 0, code |-> "none",
        data |-> "none", message |-> Msg("Authentication failed", error.status)]
  ELSE [kind |-> "Error", response |-> FALSE, status |-> 0, code |-> "none",
        data |-> "none", message |-> Msg("Failed to authenticate with DVSA API", 0)]

\* RethrownError throwing the error of the alternative instead.
RethrownAltError(authError, altAuthError) == altAuthError

\* RethrownError throwing a timeout error whatever was caught.
RethrownAsTimeout(authError, altAuthError) == TimeoutError

\* catch (altAuthError) { throw authError; }
RethrownError(authError, altAuthError) == authError

(***************************************************************************)
(* Responses of the /api/mot/:registration handler of server.js.            *)
(***************************************************************************)
Response(status, success, error, registration, data, timestamp, details) ==
  [status |-> status, success |-> success, error |-> error,
   registration |-> registration, data |-> data, timestamp |-> timestamp,
   details |-> details]

NoResponse == Response(0, FALSE, "absent", None, None, None, NoMsg)

\* InvalidRegistrationResponse with status 422.
InvalidRegistration422(registration) ==
  Response(422, FALSE, "Invalid registration format", Some(registration), None, None, NoMsg)

\* res.status(400).json({ error: "Invalid registration format", ... })
InvalidRegistrationResponse(registration) ==
  Response(400, FALSE, "Invalid registration format", Some(registration), None, None, NoMsg)

\* res.status(500).json({ error: "API credentials not configured", ... })
ConfigErrorResponse ==
  Response(500, FALSE, "API credentials not configured", None, None, None, NoMsg)

\* SuccessResponse leaving the payload out of the envelope.
SuccessResponseNoData(data, registration, now) ==
  Response(200, TRUE, "absent", Some(registration), None, Some(now), NoMsg)

\* res.json({ success: true, data: apiResponse.data, registration, timestamp })
SuccessResponse(data, registration, now) ==
  Response(200, TRUE, "absent", Some(registration), Some(data), Some(now), NoMsg)

\* errorData?.error_description || errorData?.message || "Unauthorized access"
AuthDetails(data) ==
  IF data = "none" THEN Msg("Unauthorized access", 0) ELSE Msg(data, 0)

\* errorData?.message || errorData?.error
OtherDetails(data) ==
  IF data = "none" THEN NoMsg ELSE Msg(data, 0)

\* The catch block of the handler: the response it sends for a caught error.
CatchResponse(error, registration) ==
  IF error.response
  THEN CASE error.status = 404 ->
              Response(404, FALSE, "Vehicle not found", Some(registration), None, None, NoMsg)
         [] error.status \in {401, 403} ->
              Response(500, FALSE, "Authentication failed", Some(registration), None, None,
                       AuthDetails(error.data))
         [] error.status = 429 ->
              Response(429, FALSE, "Rate limit exceeded", Some(registration), None, None, NoMsg)
         [] OTHER ->
              Response(500, FALSE, "API request failed", Some(registration), None, None,
                       OtherDetails(error.data))
  ELSE IF error.code = "ECONNABORTED"
       THEN Response(408, FALSE, "Request timeout", Some(registration), None, None, NoMsg)
       ELSE Response(500, FALSE, "Internal server error", Some(registration), None, None,
                     error.message)

\* CatchCache clearing the cache on 403 only.
CatchCacheOn403(error, cache) ==
  IF error.response /\ error.status = 403 THEN EmptyCache ELSE cache

\* CatchCache clearing the cache on every status the endpoint answers with.
CatchCacheOnAnyStatus(error, cache) ==
  IF error.response THEN EmptyCache ELSE cache

\* CatchCache clearing the cache on 401 only.
CatchCacheOn401(error, cache) ==
  IF error.response /\ error.status = 401 THEN EmptyCache ELSE cache

\* The catch block of the handler: what it does to the token cache.
CatchCache(error, cache) ==
  IF error.response /\ error.status \in {401, 403} THEN EmptyCache ELSE cache

\* !AUTH_CONFIG.clientId || !AUTH_CONFIG.clientSecret || !AUTH_CONFIG.apiKey || !AUTH_CONFIG.tokenUrl
ConfigMissing(config) ==
  \/ ~config.clientId
  \/ ~config.clientSecret
  \/ ~config.apiKey
  \/ ~config.tokenUrl

FullConfig == [clientId |-> TRUE, clientSecret |-> TRUE, apiKey |-> TRUE, tokenUrl |-> TRUE]

\* The environments the process may be started in: which settings are present.
ConfigChoices ==
  { FullConfig,
    [FullConfig EXCEPT !.apiKey = FALSE],
    [FullConfig EXCEPT !.clientSecret = FALSE] }

\* One vehicle-data request of a handler: whether it carried x-api-key, how it
\* ended ("pending" while in flight), the status answered (0 when there was no
\* answer) and the payload of a 2xx answer ("none" otherwise).
ApiCall(withKey, outcome, status, data) ==
  [withKey |-> withKey, outcome |-> outcome, status |-> status, data |-> data]

\* The request log with its last entry completed.
Completed(log, outcome, status, data) ==
  [log EXCEPT ![Len(log)] = ApiCall(log[Len(log)].withKey, outcome, status, data)]

(***************************************************************************)
(* State of the server (server.js).                                         *)
(***************************************************************************)
VARIABLES
  clock,        \* Date.now()
  AUTH_CONFIG,  \* which of the settings the environment provides
  tokenCache,   \* the module-level token cache
  lookup,       \* the requests being served, one record per request
  started       \* number of requests received so far

svars == <<clock, AUTH_CONFIG, tokenCache, lookup, started>>

(***************************************************************************)
(* State of the scope testers, which are programs of their own.             *)
(***************************************************************************)
VARIABLES
  ts,   \* the request GET /test-scopes/:registration is serving
  sc    \* the request POST /test-scope is serving

tvars == <<ts, sc>>

(***************************************************************************)
(* State of the diagnostic routes of server.js, which share the token cache *)
(* and the clock with /api/mot/:registration.                               *)
(***************************************************************************)
VARIABLES
  tm,   \* the request GET /test-mot-api/:registration is serving
  ta    \* the request GET /test-auth is serving

dvars == <<tm, ta>>

(***************************************************************************)
(* Two raw registrations and what a lookup route makes of them.             *)
(***************************************************************************)
VARIABLE nz

\* The request the browser-automation /api/mot/:reg routes are serving, and the
\* browser processes they have launched.
VARIABLE bw

\* A request slot with no request in it.
\*   pc           where the handler is suspended: "idle", "gat_wait" (token
\*                request of getAccessToken in flight), "alt_wait" (token request of
\*                getAccessTokenAlternative in flight), "api_wait" (vehicle-data
\*                request in flight), "done" (response sent)
\*   registration the normalized registration
\*   accessToken  the handler's accessToken
\*   sent         when the request in flight was sent; in "gat_wait" this is also
\*                the const now of getAccessToken, read in the same run
\*   caught       the error getAccessToken caught
\*   authError    the error getAccessToken threw
\*   res          the response sent
\*   apiLog       the vehicle-data requests the handler has sent
\*   nExch        number of token requests the handler has sent
\*   storedSince  a token was stored by another request since getAccessToken
\*                failed for this one
\*   raced        another request was waiting for the token request of its
\*                getAccessToken when this one sent its own
\*   removedOther the catch block of this request emptied a cache that held a
\*                token other than the one the request had sent
IdleLookup ==
  [pc |-> "idle", registration |-> <<>>, accessToken |-> NullTok, sent |-> 0,
   caught |-> NoError, authError |-> NoError, res |-> NoResponse,
   apiLog |-> <<>>, nExch |-> 0, storedSince |-> FALSE, raced |-> FALSE,
   removedOther |-> FALSE]

MaxClock == T0 + MaxTicks * Tick

InFlight(l) == l.pc \in {"gat_wait", "alt_wait", "api_wait"}

\* TimeoutOf with the bound of the token requests on every request.
TimeoutOfTokenRequest(l) == TokenTimeoutMs

\* The timeout option of the request a handler is waiting for.
TimeoutOf(l) == IF l.pc = "api_wait" THEN ApiTimeoutMs ELSE TokenTimeoutMs

\* The request in flight has not timed out yet.
InTime(l) == clock - l.sent < TimeoutOf(l)

\* Some other request stores a token: every request waiting for the alternative
\* exchange notes it.
NoteStore(lk, i) ==
  [j \in Lookups |->
     IF j # i /\ lk[j].pc = "alt_wait" THEN [lk[j] EXCEPT !.storedSince = TRUE] ELSE lk[j]]

\* The handler sends the vehicle-data request with the token it holds.  The
\* errors of the token phase are out of scope from here on.
SendApi(l, token) ==
  [l EXCEPT !.pc = "api_wait", !.accessToken = token, !.sent = clock,
            !.caught = NoError, !.authError = NoError, !.storedSince = FALSE,
            !.apiLog = Append(@, ApiCall(TRUE, "pending", 0, "none"))]

\* The handler sends its response; its locals are out of scope from here on.
Respond(l, response) ==
  [l EXCEPT !.pc = "done", !.res = response, !.accessToken = NullTok, !.sent = 0,
            !.caught = NoError, !.authError = NoError, !.storedSince = FALSE,
            !.raced = FALSE]

SInit ==
  /\ clock = T0
  /\ AUTH_CONFIG \in ConfigChoices
  /\ tokenCache = EmptyCache
  /\ lookup = [i \in Lookups |-> IdleLookup]
  /\ started = 0

\* A request arrives: the handler runs up to its first network request, that
\* is through normalization, validation, the configuration check and the
\* synchronous part of getAccessToken.
StartLookup(i, raw) ==
  /\ lookup[i].pc = "idle"
  /\ started < MaxRequests
  /\ clock <= MaxClock
  /\ started' = started + 1
  /\ LET reg == NormalizeRegistration(raw)
         l == [lookup[i] EXCEPT !.registration = reg]
     IN  lookup' = [lookup EXCEPT ![i] =
           IF ~validateRegistration(reg)
           THEN Respond(l, InvalidRegistrationResponse(reg))
           ELSE IF ConfigMissing(AUTH_CONFIG)
           THEN Respond(l, ConfigErrorResponse)
           ELSE IF CacheUsable(tokenCache, clock)
           THEN SendApi(l, tokenCache.accessToken)
           ELSE [l EXCEPT !.pc = "gat_wait", !.sent = clock, !.nExch = @ + 1,
                          !.raced = \E j \in Lookups \ {i} : lookup[j].pc = "gat_wait"]]
  /\ UNCHANGED <<clock, AUTH_CONFIG, tokenCache, tvars, dvars, nz, bw>>

\* The token endpoint answers 2xx to getAccessToken: the token is cached and
\* returned, and the handler sends the vehicle-data request.
GetAccessTokenResponse(i, body) ==
  /\ lookup[i].pc = "gat_wait"
  /\ InTime(lookup[i])
  /\ tokenCache' = StoredCache(GetAccessTokenNow(lookup[i].sent, clock), body)
  /\ lookup' = [NoteStore(lookup, i) EXCEPT ![i] = SendApi(@, tokenCache'.accessToken)]
  /\ UNCHANGED <<clock, AUTH_CONFIG, started, tvars, dvars, nz, bw>>

\* The token request of getAccessToken fails with error: the cache is
\* cleared, the Error is thrown, and the handler calls
\* getAccessTokenAlternative, which sends its token request.
GetAccessTokenFailed(i, error) ==
  /\ lookup[i].pc = "gat_wait"
  /\ tokenCache' = CacheAfterAuthError(tokenCache)
  /\ lookup' = [lookup EXCEPT ![i] =
       [@ EXCEPT !.pc = "alt_wait", !.sent = clock, !.caught = error,
                 !.authError = AuthErrorOf(error), !.nExch = @ + 1,
                 !.storedSince = FALSE, !.raced = FALSE]]
  /\ UNCHANGED <<clock, AUTH_CONFIG, started, tvars, dvars, nz, bw>>

GetAccessTokenHttpError(i, status) ==
  /\ InTime(lookup[i])
  /\ GetAccessTokenFailed(i, HttpError(status, "none"))

GetAccessTokenNetworkError(i) ==
  /\ InTime(lookup[i])
  /\ GetAccessTokenFailed(i, NetworkError)

GetAccessTokenTimeout(i) ==
  /\ ~InTime(lookup[i])
  /\ GetAccessTokenFailed(i, TimeoutError)

\* The token endpoint answers 2xx to getAccessTokenAlternative.
AlternativeResponse(i, body) ==
  /\ lookup[i].pc = "alt_wait"
  /\ InTime(lookup[i])
  /\ tokenCache' = StoredCache(AlternativeNow(lookup[i].sent, clock), body)
  /\ lookup' = [NoteStore(lookup, i) EXCEPT ![i] = SendApi(@, tokenCache'.accessToken)]
  /\ UNCHANGED <<clock, AUTH_CONFIG, started, tvars, dvars, nz, bw>>

\* The token request of getAccessTokenAlternative fails: it rethrows, the
\* handler throws into its outer catch, which sends the response.
AlternativeFailed(i, altAuthError) ==
  /\ lookup[i].pc = "alt_wait"
  /\ LET error == RethrownError(lookup[i].authError, altAuthError)
     IN  /\ tokenCache' = CatchCache(error, tokenCache)
         /\ lookup' = [lookup EXCEPT ![i] =
              Respond(@, CatchResponse(error, lookup[i].registration))]
  /\ UNCHANGED <<clock, AUTH_CONFIG, started, tvars, dvars, nz, bw>>

AlternativeHttpError(i, status) ==
  /\ InTime(lookup[i])
  /\ AlternativeFailed(i, HttpError(status, "none"))

AlternativeNetworkError(i) ==
  /\ InTime(lookup[i])
  /\ AlternativeFailed(i, NetworkError)

AlternativeTimeout(i) ==
  /\ ~InTime(lookup[i])
  /\ AlternativeFailed(i, TimeoutError)

\* The vehicle-data endpoint answers 2xx.
ApiSuccess(i, status, data) ==
  /\ lookup[i].pc = "api_wait"
  /\ InTime(lookup[i])
  /\ lookup' = [lookup EXCEPT ![i] =
       Respond([@ EXCEPT !.apiLog = Completed(@, "response", status, data)],
               SuccessResponse(data, lookup[i].registration, clock))]
  /\ UNCHANGED <<clock, AUTH_CONFIG, tokenCache, started, tvars, dvars, nz, bw>>

\* The vehicle-data request fails with error: the catch block of the handler.
ApiFailed(i, error, outcome) ==
  /\ lookup[i].pc = "api_wait"
  /\ tokenCache' = CatchCache(error, tokenCache)
  /\ lookup' = [lookup EXCEPT ![i] =
       Respond([@ EXCEPT !.apiLog = Completed(@, outcome, error.status, "none"),
                         !.removedOther =
                            /\ tokenCache' # tokenCache
                            /\ TokTruthy(tokenCache.accessToken)
                            /\ tokenCache.accessToken # lookup[i].accessToken],
               CatchResponse(error, lookup[i].registration))]
  /\ UNCHANGED <<clock, AUTH_CONFIG, started, tvars, dvars, nz, bw>>

ApiHttpError(i, status, data) ==
  /\ InTime(lookup[i])
  /\ ApiFailed(i, HttpError(status, data), "response")

ApiNetworkError(i) ==
  /\ InTime(lookup[i])
  /\ ApiFailed(i, NetworkError, "network")

ApiTimeout(i) ==
  /\ ~InTime(lookup[i])
  /\ ApiFailed(i, TimeoutError, "timeout")

\* The exchange of a request and its response is over; the slot is free.
Close(i) ==
  /\ lookup[i].pc = "done"
  /\ lookup' = [lookup EXCEPT ![i] = IdleLookup]
  /\ UNCHANGED <<clock, AUTH_CONFIG, tokenCache, started, tvars, dvars, nz, bw>>

\* Time passes.  It cannot pass the instant at which a request in flight times
\* out before the timeout is handled, and a response sent is delivered within
\* the tick.
TickClock ==
  /\ \/ clock < MaxClock
     \/ \E i \in Lookups : InFlight(lookup[i])
  /\ \A i \in Lookups : InFlight(lookup[i]) => InTime(lookup[i])
  /\ \A i \in Lookups : lookup[i].pc # "done"
  /\ clock' = clock + Tick
  /\ UNCHANGED <<AUTH_CONFIG, tokenCache, lookup, started, tvars, dvars, nz, bw>>

SNext ==
  \/ \E i \in Lookups, raw \in RegInputs : StartLookup(i, raw)
  \/ \E i \in Lookups, body \in TokenBodies : GetAccessTokenResponse(i, body)
  \/ \E i \in Lookups, status \in TokenErrorStatuses : GetAccessTokenHttpError(i, status)
  \/ \E i \in Lookups : GetAccessTokenNetworkError(i)
  \/ \E i \in Lookups : GetAccessTokenTimeout(i)
  \/ \E i \in Lookups, body \in TokenBodies : AlternativeResponse(i, body)
  \/ \E i \in Lookups, status \in TokenErrorStatuses : AlternativeHttpError(i, status)
  \/ \E i \in Lookups : AlternativeNetworkError(i)
  \/ \E i \in Lookups : AlternativeTimeout(i)
  \/ \E i \in Lookups, data \in Payloads : ApiSuccess(i, 200, data)
  \/ \E i \in Lookups, status \in UpstreamStatuses \ {200}, data \in ErrorBodies :
       ApiHttpError(i, status, data)
  \/ \E i \in Lookups : ApiNetworkError(i)
  \/ \E i \in Lookups : ApiTimeout(i)
  \/ \E i \in Lookups : Close(i)
  \/ TickClock

(***************************************************************************)
(* The scope testers: GET /test-scopes/:registration of test-scopes.js and  *)
(* POST /test-scope of the form-based tester.  They are separate programs   *)
(* that share nothing with the server but the environment.                  *)
(***************************************************************************)
\* Number of entries of scopesToTry the model iterates over.
ScopesModelled == 2

scopesToTry ==
  << "https://tapi.dvsa.gov.uk/.default",
     "api://tapi.dvsa.gov.uk/.default",
     "https://check-mot.service.gov.uk/.default",
     "https://beta.check-mot.service.gov.uk/.default",
     "mot.read",
     "https://tapi.dvsa.gov.uk/mot.read",
     "https://tapi.dvsa.gov.uk/mot.api",
     "https://dvsa.gov.uk/.default",
     "" >>

\* The scopes the loop of the model runs over: the first ScopesModelled entries
\* of scopesToTry.
ScopeList == SubSeq(scopesToTry, 1, ScopesModelled)

\* scope || '(empty)'
ScopeKey(scope) == IF scope = "" THEN "(empty)" ELSE scope

\* The scope field of the form of POST /test-scope.
ScopeInputs == {"https://tapi.dvsa.gov.uk/.default", ""}

\* access_token of the token answers the testers receive.
TesterTokens == Tokens
\* Statuses the vehicle-data endpoint fails with; 0 stands for no response at
\* all (connection failure or timeout), where error.response is undefined.
TesterFailures == {0, 401, 403, 404}
TokenFailures == {0, 400}

\* One vehicle-data request of a tester.
TesterCall(scope, withKey, token, registration, outcome, status) ==
  [scope |-> scope, withKey |-> withKey, token |-> token,
   registration |-> registration, outcome |-> outcome, status |-> status]

\* An entry of results[...]: withApiKey / withoutApiKey.
ApiResult(success, status) == [present |-> TRUE, success |-> success, status |-> status]
NoApiResult == [present |-> FALSE, success |-> FALSE, status |-> 0]

\* results[scope || '(empty)'], in insertion order.
ScopeResult(key, acquired, withApiKey, withoutApiKey) ==
  [key |-> key, acquired |-> acquired, withApiKey |-> withApiKey,
   withoutApiKey |-> withoutApiKey]

\* RetryWithoutKey retrying on every status the endpoint answers with.
RetryWithoutKeyOnAnyStatus(status) == status # 0

\* withKeyError.response?.status === 403 of test-scopes.js
RetryWithoutKey(status) == status = 403

\* The catch (apiError) of POST /test-scope retries whatever the failure was.
ScopeTestRetry(status) == TRUE

\*   pc           "idle", "token_wait", "withkey_wait", "nokey_wait", "done"
\*   idx          position of the loop in the scope list
\*   accessToken  the token of the current scope
\*   results      the results object, as the sequence of its entries
\*   log          the vehicle-data requests sent for the current scope
\*                (in sc: while serving the request)
\*   res          the response
IdleScopes ==
  [pc |-> "idle", registration |-> <<>>, idx |-> 0, accessToken |-> NullTok,
   results |-> <<>>, log |-> <<>>,
   res |-> [sent |-> FALSE, successfulScopes |-> <<>>, tokenObtainedFor |-> <<>>,
            recommendation |-> Msg("absent", 0)]]

IdleScope ==
  [pc |-> "idle", registration |-> <<>>, scope |-> "", accessToken |-> NullTok,
   log |-> <<>>, res |-> "absent"]

TInit ==
  /\ ts = IdleScopes
  /\ sc = IdleScope

\* SuccessfulEntry looking at the call with the API key only.
SuccessfulEntryWithKeyOnly(r) == r.withApiKey.present /\ r.withApiKey.success

\* (results[scope].withApiKey && results[scope].withApiKey.success) || ...
SuccessfulEntry(r) ==
  \/ r.withApiKey.present /\ r.withApiKey.success
  \/ r.withoutApiKey.present /\ r.withoutApiKey.success

TokenEntry(r) == r.acquired

\* Object.keys(results).filter(...)
KeysWhere(results, Test(_)) ==
  LET kept == SelectSeq(results, Test) IN [k \in 1..Len(kept) |-> kept[k].key]

\* The response object of GET /test-scopes/:registration.
ScopesResponse(results) ==
  LET successfulScopes == KeysWhere(results, SuccessfulEntry)
      tokenObtained == KeysWhere(results, TokenEntry)
  IN  [sent |-> TRUE,
       successfulScopes |-> successfulScopes,
       tokenObtainedFor |-> tokenObtained,
       recommendation |->
         IF Len(successfulScopes) > 0
         THEN [text |-> "Use scope: ", status |-> successfulScopes[1]]
         ELSE IF Len(tokenObtained) > 0
         THEN [text |-> "Token obtained but API access denied. Contact DVSA for access.",
               status |-> ""]
         ELSE [text |-> "Authentication failed. Check credentials.", status |-> ""]]

\* The loop goes on to its next scope, or the handler responds after the last.
NextScope(t) ==
  IF t.idx < Len(ScopeList)
  THEN [t EXCEPT !.pc = "token_wait", !.idx = @ + 1, !.accessToken = NullTok,
                 !.log = <<>>]
  ELSE [t EXCEPT !.pc = "done", !.accessToken = NullTok, !.log = <<>>,
                 !.res = ScopesResponse(t.results)]

LastLogDone(log, outcome, status) ==
  [log EXCEPT ![Len(log)] = [@ EXCEPT !.outcome = outcome, !.status = status]]

LastResult(results, field, value) ==
  [results EXCEPT ![Len(results)] =
     IF field = "withApiKey" THEN [@ EXCEPT !.withApiKey = value]
     ELSE [@ EXCEPT !.withoutApiKey = value]]

\* GET /test-scopes/:registration arrives; the token request of the first
\* scope is sent.
ScopesStart(raw) ==
  /\ ts.pc = "idle"
  /\ ts' = NextScope([ts EXCEPT !.registration = NormalizeRegistration(raw)])
  /\ UNCHANGED <<sc, svars, dvars, nz, bw>>

\* The token request of the current scope succeeds; the request with the API
\* key is sent.
ScopesTokenResponse(token) ==
  /\ ts.pc = "token_wait"
  /\ ts' = [ts EXCEPT
       !.pc = "withkey_wait",
       !.accessToken = token,
       !.results = Append(@, ScopeResult(ScopeKey(ScopeList[ts.idx]), TRUE,
                                         NoApiResult, NoApiResult)),
       !.log = Append(@, TesterCall(ScopeList[ts.idx], TRUE, token, ts.registration,
                                    "pending", 0))]
  /\ UNCHANGED <<sc, svars, dvars, nz, bw>>

\* The token request of the current scope fails.
ScopesTokenFailed(status) ==
  /\ ts.pc = "token_wait"
  /\ ts' = NextScope([ts EXCEPT
       !.results = Append(@, ScopeResult(ScopeKey(ScopeList[ts.idx]), FALSE,
                                         NoApiResult, NoApiResult))])
  /\ UNCHANGED <<sc, svars, dvars, nz, bw>>

\* The request with the API key succeeds.
ScopesWithKeySuccess(status) ==
  /\ ts.pc = "withkey_wait"
  /\ ts' = NextScope([ts EXCEPT
       !.results = LastResult(@, "withApiKey", ApiResult(TRUE, status)),
       !.log = LastLogDone(@, "response", status)])
  /\ UNCHANGED <<sc, svars, dvars, nz, bw>>

\* The request with the API key fails; on 403 the request without it is sent.
ScopesWithKeyFailed(status) ==
  /\ ts.pc = "withkey_wait"
  /\ LET t == [ts EXCEPT
                 !.results = LastResult(@, "withApiKey", ApiResult(FALSE, status)),
                 !.log = LastLogDone(@, IF status = 0 THEN "noresponse" ELSE "response",
                                     status)]
     IN  ts' = IF RetryWithoutKey(status)
               THEN [t EXCEPT
                       !.pc = "nokey_wait",
                       !.log = Append(@, TesterCall(ScopeList[ts.idx], FALSE,
                                                    ts.accessToken, ts.registration,
                                                    "pending", 0))]
               ELSE NextScope(t)
  /\ UNCHANGED <<sc, svars, dvars, nz, bw>>

\* The request without the API key succeeds.
ScopesNoKeySuccess(status) ==
  /\ ts.pc = "nokey_wait"
  /\ ts' = NextScope([ts EXCEPT
       !.results = LastResult(@, "withoutApiKey", ApiResult(TRUE, status)),
       !.log = LastLogDone(@, "response", status)])
  /\ UNCHANGED <<sc, svars, dvars, nz, bw>>

\* The request without the API key fails.
ScopesNoKeyFailed(status) ==
  /\ ts.pc = "nokey_wait"
  /\ ts' = NextScope([ts EXCEPT
       !.results = LastResult(@, "withoutApiKey", ApiResult(FALSE, status)),
       !.log = LastLogDone(@, IF status = 0 THEN "noresponse" ELSE "response", status)])
  /\ UNCHANGED <<sc, svars, dvars, nz, bw>>

ScopesClose ==
  /\ ts.pc = "done"
  /\ ts' = IdleScopes
  /\ UNCHANGED <<sc, svars, dvars, nz, bw>>

\* POST /test-scope arrives; the token request is sent.
ScopeTestStart(raw, scope) ==
  /\ sc.pc = "idle"
  /\ sc' = [sc EXCEPT !.pc = "token_wait", !.scope = scope,
                      !.registration = NormalizeRegistration(raw)]
  /\ UNCHANGED <<ts, svars, dvars, nz, bw>>

\* The token request succeeds; the request with the API key is sent.
ScopeTestTokenResponse(token) ==
  /\ sc.pc = "token_wait"
  /\ sc' = [sc EXCEPT
       !.pc = "withkey_wait",
       !.accessToken = token,
       !.log = Append(@, TesterCall(sc.scope, TRUE, token, sc.registration, "pending", 0))]
  /\ UNCHANGED <<ts, svars, dvars, nz, bw>>

\* The token request fails: the "Token Acquisition Failed" page.
ScopeTestTokenFailed(status) ==
  /\ sc.pc = "token_wait"
  /\ sc' = [sc EXCEPT !.pc = "done", !.res = "Token Acquisition Failed"]
  /\ UNCHANGED <<ts, svars, dvars, nz, bw>>

\* The request with the API key succeeds: the "SUCCESS!" page.
ScopeTestWithKeySuccess(status) ==
  /\ sc.pc = "withkey_wait"
  /\ sc' = [sc EXCEPT !.pc = "done", !.res = "SUCCESS!", !.accessToken = NullTok,
                      !.log = LastLogDone(@, "response", status)]
  /\ UNCHANGED <<ts, svars, dvars, nz, bw>>

\* The request with the API key fails: the request without it is sent.
ScopeTestWithKeyFailed(status) ==
  /\ sc.pc = "withkey_wait"
  /\ LET s == [sc EXCEPT
                 !.log = LastLogDone(@, IF status = 0 THEN "noresponse" ELSE "response",
                                     status)]
     IN  sc' = IF ScopeTestRetry(status)
               THEN [s EXCEPT
                       !.pc = "nokey_wait",
                       !.log = Append(@, TesterCall(sc.scope, FALSE, sc.accessToken,
                                                    sc.registration, "pending", 0))]
               ELSE [s EXCEPT !.pc = "done", !.res = "API Access Failed",
                              !.accessToken = NullTok]
  /\ UNCHANGED <<ts, svars, dvars, nz, bw>>

\* The request without the API key succeeds: the "PARTIAL SUCCESS!" page.
ScopeTestNoKeySuccess(status) ==
  /\ sc.pc = "nokey_wait"
  /\ sc' = [sc EXCEPT !.pc = "done", !.res = "PARTIAL SUCCESS!", !.accessToken = NullTok,
                      !.log = LastLogDone(@, "response", status)]
  /\ UNCHANGED <<ts, svars, dvars, nz, bw>>

\* The request without the API key fails: the "API Access Failed" page.
ScopeTestNoKeyFailed(status) ==
  /\ sc.pc = "nokey_wait"
  /\ sc' = [sc EXCEPT !.pc = "done", !.res = "API Access Failed", !.accessToken = NullTok,
                      !.log = LastLogDone(@, IF status = 0 THEN "noresponse" ELSE "response",
                                          status)]
  /\ UNCHANGED <<ts, svars, dvars, nz, bw>>

ScopeTestClose ==
  /\ sc.pc = "done"
  /\ sc' = IdleScope
  /\ UNCHANGED <<ts, svars, dvars, nz, bw>>

ScopesNext ==
  \/ \E raw \in RegInputs : ScopesStart(raw)
  \/ \E token \in TesterTokens : ScopesTokenResponse(token)
  \/ \E status \in TokenFailures : ScopesTokenFailed(status)
  \/ ScopesWithKeySuccess(200)
  \/ \E status \in TesterFailures : ScopesWithKeyFailed(status)
  \/ ScopesNoKeySuccess(200)
  \/ \E status \in TesterFailures : ScopesNoKeyFailed(status)
  \/ ScopesClose

ScopeTestNext ==
  \/ \E raw \in RegInputs, scope \in ScopeInputs : ScopeTestStart(raw, scope)
  \/ \E token \in TesterTokens : ScopeTestTokenResponse(token)
  \/ \E status \in TokenFailures : ScopeTestTokenFailed(status)
  \/ ScopeTestWithKeySuccess(200)
  \/ \E status \in TesterFailures : ScopeTestWithKeyFailed(status)
  \/ ScopeTestNoKeySuccess(200)
  \/ \E status \in TesterFailures : ScopeTestNoKeyFailed(status)
  \/ ScopeTestClose

(***************************************************************************)
(* The diagnostic routes of server.js: GET /test-mot-api/:registration,     *)
(* which calls getAccessToken and the vehicle-data endpoint, and            *)
(* GET /test-auth, which sends the two token requests itself.               *)
(***************************************************************************)
\* error.response?.status
StatusOf(error) == IF error.response THEN Num(error.status) ELSE UndefV

\* error.response?.data || error.message
DataOrMessage(error) ==
  IF error.response /\ error.data # "none" THEN Msg(error.data, 0) ELSE error.message

\* A token response body that is absent.
NoBody == [access_token |-> NullTok, expires_in |-> NullV]

\* The responses of /test-mot-api/:registration.
TestMotResponse(status, success, error, statusCode, errorDetails, registration) ==
  [status |-> status, success |-> success, error |-> error, statusCode |-> statusCode,
   errorDetails |-> errorDetails, registration |-> registration]

NoTestMotResponse == TestMotResponse(0, FALSE, "absent", UndefV, NoMsg, None)

\* res.json({ success: true, motApiWorking: true, statusCode, dataReceived, registration })
TestMotSuccess(statusCode, registration) ==
  TestMotResponse(200, TRUE, "absent", Num(statusCode), NoMsg, Some(registration))

\* res.status(500).json({ success: false, error: 'MOT API test failed', ... })
TestMotFailure(error, registration) ==
  TestMotResponse(500, FALSE, "MOT API test failed", StatusOf(error),
                  DataOrMessage(error), Some(registration))

\* The responses of /test-auth.
TestAuthResponse(status, success, method, rawResponse, error, stdErr, stdStatus, altErr, altStatus) ==
  [status |-> status, success |-> success, method |-> method,
   rawResponse |-> rawResponse, error |-> error,
   standardAuthError |-> stdErr, standardAuthStatus |-> stdStatus,
   alternativeAuthError |-> altErr, alternativeAuthStatus |-> altStatus]

NoTestAuthResponse ==
  TestAuthResponse(0, FALSE, "absent", NoBody, "absent", NoMsg, UndefV, NoMsg, UndefV)

\* res.json({ success: true, method, tokenReceived: true, ..., rawResponse: tokenResponse.data })
TestAuthSuccess(method, body) ==
  TestAuthResponse(200, TRUE, method, body, "absent", NoMsg, UndefV, NoMsg, UndefV)

\* res.status(500).json({ success: false, error: 'Both authentication methods failed', ... })
TestAuthFailure(standardError, altError) ==
  TestAuthResponse(500, FALSE, "absent", NoBody, "Both authentication methods failed",
                   DataOrMessage(standardError), StatusOf(standardError),
                   DataOrMessage(altError), StatusOf(altError))

\*   pc           "idle", "gat_wait", "api_wait", "done"
\*   nReq         number of network requests the handler has sent
IdleTestMot ==
  [pc |-> "idle", registration |-> <<>>, accessToken |-> NullTok, sent |-> 0,
   nReq |-> 0, res |-> NoTestMotResponse]

\*   pc             "idle", "std_wait", "alt_wait", "done"
\*   standardError  the error of the first token request
IdleTestAuth ==
  [pc |-> "idle", sent |-> 0, standardError |-> NoError, res |-> NoTestAuthResponse]

DInit ==
  /\ tm = IdleTestMot
  /\ ta = IdleTestAuth

\* A request arrives at /test-mot-api/:registration: the handler normalizes the
\* registration and calls getAccessToken, which returns the cached token or
\* sends its token request.
TestMotStart(raw) ==
  /\ tm.pc = "idle"
  /\ clock <= MaxClock
  /\ LET reg == NormalizeRegistration(raw)
     IN  tm' = IF CacheUsable(tokenCache, clock)
               THEN [tm EXCEPT !.pc = "api_wait", !.registration = reg,
                               !.accessToken = tokenCache.accessToken,
                               !.sent = clock, !.nReq = 1]
               ELSE [tm EXCEPT !.pc = "gat_wait", !.registration = reg,
                               !.sent = clock, !.nReq = 1]
  /\ UNCHANGED <<svars, tvars, ta, nz, bw>>

\* The token endpoint answers 2xx to getAccessToken: the token is cached and
\* the handler sends the vehicle-data request.
TestMotTokenResponse(body) ==
  /\ tm.pc = "gat_wait"
  /\ InTime(tm)
  /\ tokenCache' = StoredCache(GetAccessTokenNow(tm.sent, clock), body)
  /\ tm' = [tm EXCEPT !.pc = "api_wait", !.accessToken = tokenCache'.accessToken,
                      !.sent = clock, !.nReq = @ + 1]
  /\ UNCHANGED <<clock, AUTH_CONFIG, lookup, started, tvars, ta, nz, bw>>

\* The token request of getAccessToken fails: the cache is cleared and the
\* Error it throws is caught by the handler, which sends the response.
TestMotTokenFailed(error) ==
  /\ tm.pc = "gat_wait"
  /\ tokenCache' = CacheAfterAuthError(tokenCache)
  /\ tm' = [tm EXCEPT !.pc = "done", !.sent = 0,
                      !.res = TestMotFailure(AuthErrorOf(error), tm.registration)]
  /\ UNCHANGED <<clock, AUTH_CONFIG, lookup, started, tvars, ta, nz, bw>>

TestMotTokenHttpError(status, data) ==
  /\ InTime(tm)
  /\ TestMotTokenFailed(HttpError(status, data))

TestMotTokenTimeout ==
  /\ ~InTime(tm)
  /\ TestMotTokenFailed(TimeoutError)

\* The vehicle-data endpoint answers 2xx.
TestMotApiSuccess(status) ==
  /\ tm.pc = "api_wait"
  /\ InTime(tm)
  /\ tm' = [tm EXCEPT !.pc = "done", !.sent = 0, !.accessToken = NullTok,
                      !.res = TestMotSuccess(status, tm.registration)]
  /\ UNCHANGED <<svars, tvars, ta, nz, bw>>

\* The vehicle-data request fails: the catch block of the handler.
TestMotApiFailed(error) ==
  /\ tm.pc = "api_wait"
  /\ tm' = [tm EXCEPT !.pc = "done", !.sent = 0, !.accessToken = NullTok,
                      !.res = TestMotFailure(error, tm.registration)]
  /\ UNCHANGED <<svars, tvars, ta, nz, bw>>

TestMotApiHttpError(status, data) ==
  /\ InTime(tm)
  /\ TestMotApiFailed(HttpError(status, data))

TestMotApiNetworkError ==
  /\ InTime(tm)
  /\ TestMotApiFailed(NetworkError)

TestMotApiTimeout ==
  /\ ~InTime(tm)
  /\ TestMotApiFailed(TimeoutError)

TestMotClose ==
  /\ tm.pc = "done"
  /\ tm' = IdleTestMot
  /\ UNCHANGED <<svars, tvars, ta, nz, bw>>

\* A request arrives at /test-auth: the handler sends the standard token request.
TestAuthStart ==
  /\ ta.pc = "idle"
  /\ clock <= MaxClock
  /\ ta' = [ta EXCEPT !.pc = "std_wait", !.sent = clock]
  /\ UNCHANGED <<svars, tvars, tm, nz, bw>>

\* The token endpoint answers 2xx to the standard or to the alternative token
\* request: the handler relays the answer.
TestAuthResponded(body) ==
  /\ ta.pc \in {"std_wait", "alt_wait"}
  /\ InTime(ta)
  /\ ta' = [ta EXCEPT !.pc = "done", !.sent = 0, !.standardError = NoError,
                      !.res = TestAuthSuccess(
                                IF ta.pc = "std_wait" THEN "standard" ELSE "alternative",
                                body)]
  /\ UNCHANGED <<svars, tvars, tm, nz, bw>>

\* The standard token request fails: the handler sends the alternative one.
TestAuthStandardFailed(standardError) ==
  /\ ta.pc = "std_wait"
  /\ ta' = [ta EXCEPT !.pc = "alt_wait", !.sent = clock, !.standardError = standardError]
  /\ UNCHANGED <<svars, tvars, tm, nz, bw>>

\* The alternative token request fails too: the handler reports both errors.
TestAuthAlternativeFailed(altError) ==
  /\ ta.pc = "alt_wait"
  /\ ta' = [ta EXCEPT !.pc = "done", !.sent = 0, !.standardError = NoError,
                      !.res = TestAuthFailure(ta.standardError, altError)]
  /\ UNCHANGED <<svars, tvars, tm, nz, bw>>

TestAuthHttpError(status, data) ==
  /\ InTime(ta)
  /\ \/ TestAuthStandardFailed(HttpError(status, data))
     \/ TestAuthAlternativeFailed(HttpError(status, data))

TestAuthTimeout ==
  /\ ~InTime(ta)
  /\ \/ TestAuthStandardFailed(TimeoutError)
     \/ TestAuthAlternativeFailed(TimeoutError)

TestAuthClose ==
  /\ ta.pc = "done"
  /\ ta' = IdleTestAuth
  /\ UNCHANGED <<svars, tvars, tm, nz, bw>>

\* Time passes while the diagnostic routes are served, as in TickClock.
DiagTick ==
  /\ \/ clock < MaxClock
     \/ InFlight(tm)
     \/ ta.pc \in {"std_wait", "alt_wait"}
  /\ InFlight(tm) => InTime(tm)
  /\ ta.pc \in {"std_wait", "alt_wait"} => InTime(ta)
  /\ tm.pc # "done"
  /\ ta.pc # "done"
  /\ clock' = clock + Tick
  /\ UNCHANGED <<AUTH_CONFIG, tokenCache, lookup, started, tvars, dvars, nz, bw>>

DiagNext ==
  \/ \E raw \in RegInputs : TestMotStart(raw)
  \/ \E body \in TokenBodies : TestMotTokenResponse(body)
  \/ \E status \in TokenErrorStatuses, data \in ErrorBodies :
       TestMotTokenHttpError(status, data)
  \/ TestMotTokenTimeout
  \/ TestMotApiSuccess(200)
  \/ \E status \in UpstreamStatuses \ {200}, data \in ErrorBodies :
       TestMotApiHttpError(status, data)
  \/ TestMotApiNetworkError
  \/ TestMotApiTimeout
  \/ TestMotClose
  \/ TestAuthStart
  \/ \E body \in TokenBodies : TestAuthResponded(body)
  \/ \E status \in TokenErrorStatuses, data \in ErrorBodies : TestAuthHttpError(status, data)
  \/ TestAuthTimeout
  \/ TestAuthClose
  \/ DiagTick

(***************************************************************************)
(* Registration normalization of the lookup routes: /api/mot/:registration  *)
(* of server.js and the browser-automation /api/mot/:reg variants.          *)
(***************************************************************************)
\* Longest raw registration the routes are given; none is empty, as a route
\* parameter of Express never is.
MaxRawLen == 3

\* The characters of the raw registrations.
RawChars == {"a", "A", "1", " "}

RawInputs == UNION { [1..n -> RawChars] : n \in 1..MaxRawLen }

\* params: { registration: registration } of the vehicle-data request.
ApiQuery(registration) == [registration |-> registration, checkRecalls |-> "absent"]

\* ?registration=${reg}&checkRecalls=true of the page the browser loads.
BrowserQuery(reg) == [registration |-> reg, checkRecalls |-> "true"]

\*   pc     "idle", "input" (two requests are about to arrive), "done"
\*   route  the route that served them
\*   a, b   their raw registrations
\*   regA, regB      the registrations after normalization
\*   againA          regA normalized once more
\*   queryA, queryB  the query parameters sent upstream
NoInputs ==
  [pc |-> "idle", route |-> "none", a |-> <<>>, b |-> <<>>, regA |-> <<>>,
   regB |-> <<>>, againA |-> <<>>, queryA |-> ApiQuery(<<>>), queryB |-> ApiQuery(<<>>)]

\* const registration = req.params.registration.toUpperCase().replace(/\s/g, '')
\* and the params of the request of /api/mot/:registration of server.js.
ApiRouteNormalize ==
  /\ nz.pc = "input"
  /\ nz' = [nz EXCEPT !.pc = "done", !.route = "api",
                      !.regA = NormalizeRegistration(nz.a),
                      !.regB = NormalizeRegistration(nz.b),
                      !.againA = NormalizeRegistration(NormalizeRegistration(nz.a)),
                      !.queryA = ApiQuery(NormalizeRegistration(nz.a)),
                      !.queryB = ApiQuery(NormalizeRegistration(nz.b))]
  /\ UNCHANGED <<svars, tvars, dvars, bw>>

\* const reg = req.params.reg.toUpperCase() and the url of the puppeteer variant.
PuppeteerNormalize ==
  /\ nz.pc = "input"
  /\ nz' = [nz EXCEPT !.pc = "done", !.route = "puppeteer",
                      !.regA = NormalizeReg(nz.a),
                      !.regB = NormalizeReg(nz.b),
                      !.againA = NormalizeReg(NormalizeReg(nz.a)),
                      !.queryA = BrowserQuery(NormalizeReg(nz.a)),
                      !.queryB = BrowserQuery(NormalizeReg(nz.b))]
  /\ UNCHANGED <<svars, tvars, dvars, bw>>

\* const reg = req.params.reg.toUpperCase() of the playwright variant.
PlaywrightNormalizeReg(raw) == toUpperCase(raw)

PlaywrightNormalize ==
  /\ nz.pc = "input"
  /\ nz' = [nz EXCEPT !.pc = "done", !.route = "playwright",
                      !.regA = PlaywrightNormalizeReg(nz.a),
                      !.regB = PlaywrightNormalizeReg(nz.b),
                      !.againA = PlaywrightNormalizeReg(PlaywrightNormalizeReg(nz.a)),
                      !.queryA = BrowserQuery(PlaywrightNormalizeReg(nz.a)),
                      !.queryB = BrowserQuery(PlaywrightNormalizeReg(nz.b))]
  /\ UNCHANGED <<svars, tvars, dvars, bw>>

NormalizeNext ==
  \/ ApiRouteNormalize
  \/ PuppeteerNormalize
  \/ PlaywrightNormalize

(***************************************************************************)
(* The browser-automation /api/mot/:reg routes: the puppeteer variant of    *)
(* server.js and the playwright variant of unnamed/part_001.                *)
(***************************************************************************)
\* Requests the routes serve in a run.
MaxBrowserRequests == 2

BrowserRoutes == {"puppeteer", "playwright"}

\* The awaits of the try block of a route, in order.
BrowserSteps(route) ==
  IF route = "puppeteer"
  THEN <<"launch", "newPage", "setUserAgent", "goto", "content", "close">>
  ELSE <<"launch", "newPage", "goto", "content", "close">>

\* err.message of the rejections.
BrowserErrors == {"Navigation timeout of 30000 ms exceeded", "Target closed"}

\* res.send(html)
HtmlResponse == [status |-> 200, error |-> "none", details |-> "none", body |-> "html"]

\* res.status(500).json({ error: "Failed to fetch MOT data", details: err.message })
PuppeteerErrorResponse(message) ==
  [status |-> 500, error |-> "Failed to fetch MOT data", details |-> message,
   body |-> "json"]

\* res.status(500).send("Error fetching MOT data: " + err.message)
PlaywrightErrorResponse(message) ==
  [status |-> 500, error |-> "Error fetching MOT data: ", details |-> message,
   body |-> "text"]

BrowserErrorResponse(route, message) ==
  IF route = "puppeteer" THEN PuppeteerErrorResponse(message)
  ELSE PlaywrightErrorResponse(message)

NoBrowserResponse == [status |-> 0, error |-> "absent", details |-> "absent", body |-> "absent"]

\*   pc       "idle", "await" (the handler waits for step at of its route), "done"
\*   at       position of the awaited call in BrowserSteps(route)
\*   reg      the registration of the url
\*   browser  the browser of this request: "none", "open", "closed"
\*   running  browser processes launched and not closed, over all requests
\*   served   requests received
\*   res      the response
NoBrowserRequest ==
  [pc |-> "idle", route |-> "none", at |-> 0, reg |-> <<>>, browser |-> "none",
   running |-> 0, served |-> 0, res |-> NoBrowserResponse]

\* The awaited call of the request in bw.
BrowserStep == BrowserSteps(bw.route)[bw.at]

\* A request arrives: reg and url are built and launch() is called.
BrowserStart(route, raw) ==
  /\ bw.pc = "idle"
  /\ bw.served < MaxBrowserRequests
  /\ bw' = [bw EXCEPT !.pc = "await", !.route = route, !.at = 1,
                      !.reg = IF route = "puppeteer" THEN NormalizeReg(raw)
                              ELSE PlaywrightNormalizeReg(raw),
                      !.served = @ + 1]
  /\ UNCHANGED <<svars, tvars, dvars, nz>>

\* launch() resolves: a browser process runs; browser.newPage() is called.
BrowserLaunched ==
  /\ bw.pc = "await"
  /\ BrowserStep = "launch"
  /\ bw' = [bw EXCEPT !.at = @ + 1, !.browser = "open", !.running = @ + 1]
  /\ UNCHANGED <<svars, tvars, dvars, nz>>

\* newPage(), setUserAgent(), goto() or content() resolves: the next call is made.
BrowserStepDone ==
  /\ bw.pc = "await"
  /\ BrowserStep \in {"newPage", "setUserAgent", "goto", "content"}
  /\ bw' = [bw EXCEPT !.at = @ + 1]
  /\ UNCHANGED <<svars, tvars, dvars, nz>>

\* browser.close() resolves and the page is sent.
BrowserClosed ==
  /\ bw.pc = "await"
  /\ BrowserStep = "close"
  /\ bw' = [bw EXCEPT !.pc = "done", !.browser = "closed", !.running = @ - 1,
                      !.res = HtmlResponse]
  /\ UNCHANGED <<svars, tvars, dvars, nz>>

\* The awaited call rejects: the catch block sends the error response.
BrowserStepFailed(message) ==
  /\ bw.pc = "await"
  /\ bw' = [bw EXCEPT !.pc = "done", !.res = BrowserErrorResponse(bw.route, message)]
  /\ UNCHANGED <<svars, tvars, dvars, nz>>

\* The exchange of a request and its response is over.
BrowserExchangeOver ==
  /\ bw.pc = "done"
  /\ bw' = [NoBrowserRequest EXCEPT !.running = bw.running, !.served = bw.served]
  /\ UNCHANGED <<svars, tvars, dvars, nz>>

BrowserNext ==
  \/ \E route \in BrowserRoutes, raw \in RegInputs : BrowserStart(route, raw)
  \/ BrowserLaunched
  \/ BrowserStepDone
  \/ BrowserClosed
  \/ \E message \in BrowserErrors : BrowserStepFailed(message)
  \/ BrowserExchangeOver

(***************************************************************************)
(* Specifications.                                                          *)
(***************************************************************************)
vars == <<svars, tvars, dvars, nz, bw>>

Init == SInit /\ TInit /\ DInit /\ nz = NoInputs /\ bw = NoBrowserRequest

\* The server.
Next == SNext
Spec == Init /\ [][Next]_vars

\* The server under fair scheduling: the timers of the event loop fire (time
\* passes, and a request that has reached its timeout is abandoned), and a
\* response that was sent is delivered.  Nothing is assumed of the token
\* endpoint and of the vehicle-data endpoint: they need not ever answer.
TimerFires ==
  \/ TickClock
  \/ \E i \in Lookups :
       \/ GetAccessTokenTimeout(i)
       \/ AlternativeTimeout(i)
       \/ ApiTimeout(i)
       \/ Close(i)

Fairness == WF_vars(TimerFires)

FairSpec == Spec /\ Fairness

\* The testers run in an environment that provides every setting.
TestersInit == Init /\ AUTH_CONFIG = FullConfig

\* GET /test-scopes/:registration.
SpecScopes == TestersInit /\ [][ScopesNext]_vars

\* POST /test-scope.
SpecScopeTest == TestersInit /\ [][ScopeTestNext]_vars

\* Both scope testers.
TestersNext == ScopesNext \/ ScopeTestNext
SpecTesters == TestersInit /\ [][TestersNext]_vars

\* The diagnostic routes of server.js.
SpecDiag == Init /\ [][DiagNext]_vars

\* The lookup routes given two raw registrations.
NormalizeInit ==
  /\ SInit /\ TInit /\ DInit
  /\ AUTH_CONFIG = FullConfig
  /\ bw = NoBrowserRequest
  /\ nz \in [pc : {"input"}, route : {"none"}, a : RawInputs, b : RawInputs,
             regA : {<<>>}, regB : {<<>>}, againA : {<<>>},
             queryA : {ApiQuery(<<>>)}, queryB : {ApiQuery(<<>>)}]

SpecNormalize == NormalizeInit /\ [][NormalizeNext]_vars

\* The browser-automation routes.
SpecBrowser == TestersInit /\ [][BrowserNext]_vars

(***************************************************************************)
(* Properties.                                                              *)
(***************************************************************************)
Last(q) == q[Len(q)]

\* Request i enters getAccessToken in this step: it arrives, and is rejected
\* neither for its registration nor for the configuration.
EntersGetAccessToken(i) ==
  /\ lookup[i].pc = "idle"
  /\ lookup'[i].pc \in {"gat_wait", "api_wait"}

\* Request i sends its response in this step.
Responds(i) == lookup[i].pc # "done" /\ lookup'[i].pc = "done"

\* The cache holds a token and the clock is strictly before its expiresAt.
HoldsValidToken ==
  /\ tokenCache.accessToken \in Tokens
  /\ tokenCache.expiresAt.kind = "num"
  /\ clock < tokenCache.expiresAt.val

\* C1: whenever getAccessToken is called while the cache holds a token and the
\* time is strictly before its expiresAt, it returns the cached token and sends
\* no token request (so neither do two such calls in a row: the cache and the
\* clock are left as they were).
C1_CacheHit ==
  [][\A i \in Lookups :
       (EntersGetAccessToken(i) /\ HoldsValidToken) =>
         /\ lookup'[i].pc = "api_wait"
         /\ lookup'[i].accessToken = tokenCache.accessToken
         /\ lookup'[i].nExch = 0
         /\ tokenCache' = tokenCache
         /\ clock' = clock]_vars

\* Two requests in immediate succession both got the cached token, and no
\* token request was sent for either.
C1_Witness ==
  /\ \A i \in Lookups :
       /\ lookup[i].pc = "api_wait"
       /\ lookup[i].nExch = 0
       /\ lookup[i].sent = clock
       /\ lookup[i].accessToken = tokenCache.accessToken
  /\ HoldsValidToken

\* C2: when the vehicle-data call of /api/mot/:registration answers 401, the
\* cache is empty when the response is sent and the response is HTTP 500
\* "Authentication failed"; and a lookup that starts on the cache as the 401
\* left it sends a token request instead of taking a token from the cache.
C2_InvalidateOn401 ==
  [][\A i \in Lookups :
       /\ ( /\ lookup[i].pc = "api_wait"
            /\ Responds(i)
            /\ Last(lookup'[i].apiLog).outcome = "response"
            /\ Last(lookup'[i].apiLog).status = 401 ) =>
            /\ tokenCache' = EmptyCache
            /\ lookup'[i].res.status = 500
            /\ lookup'[i].res.error = "Authentication failed"
       /\ (EntersGetAccessToken(i) /\ tokenCache = EmptyCache) =>
            /\ lookup'[i].pc = "gat_wait"
            /\ lookup'[i].nExch = 1]_vars

\* A lookup has answered HTTP 500 "Authentication failed" to an upstream 401,
\* the cache is empty, and another lookup has just sent its token request.
C2_Witness ==
  \E i, j \in Lookups :
    /\ lookup[i].pc = "done"
    /\ lookup[i].apiLog # <<>>
    /\ Last(lookup[i].apiLog).status = 401
    /\ lookup[i].res.status = 500
    /\ lookup[i].res.error = "Authentication failed"
    /\ tokenCache = EmptyCache
    /\ lookup[j].pc = "gat_wait"
    /\ lookup[j].sent = clock

\* C3: in /api/mot/:registration an upstream 403 on the first vehicle-data call
\* is followed by exactly one retry without the x-api-key header, and the retry
\* decides the result: HTTP 200 with the success envelope if it answers 200.
C3_FallbackOn403 ==
  \A i \in Lookups :
    ( /\ lookup[i].pc = "done"
      /\ lookup[i].apiLog # <<>>
      /\ lookup[i].apiLog[1].outcome = "response"
      /\ lookup[i].apiLog[1].status = 403 ) =>
      /\ Len(lookup[i].apiLog) = 2
      /\ ~lookup[i].apiLog[2].withKey
      /\ (lookup[i].apiLog[2].status = 200 =>
            lookup[i].res.status = 200 /\ lookup[i].res.success)

\* The requests without x-api-key in a tester's log come second and follow a
\* request with the key that was answered 403.
OnlyAfter403(log) ==
  \A k \in 1..Len(log) :
    ~log[k].withKey =>
      /\ k = 2
      /\ log[1].withKey
      /\ log[1].outcome = "response"
      /\ log[1].status = 403

\* C4: in GET /test-scopes/:registration and in POST /test-scope a first
\* vehicle-data call that fails with 401, or with anything but HTTP 403, is
\* never followed by a request without the x-api-key header.
C4_NoFallbackUnless403 == OnlyAfter403(ts.log) /\ OnlyAfter403(sc.log)

C6_ExchangeFailureClears ==
  [][\A i \in Lookups :
       (lookup[i].pc = "gat_wait" /\ lookup'[i].pc \notin {"gat_wait", "api_wait"}) =>
         /\ tokenCache'.accessToken = NullTok
         /\ tokenCache'.expiresAt = NullV
         /\ lookup'[i].caught.kind = "axios"
         /\ lookup'[i].authError.kind = "Error"
         /\ (lookup'[i].caught.response =>
               lookup'[i].authError.message.status = lookup'[i].caught.status)]_vars

\* getAccessToken has failed on an HTTP 400 of the token endpoint while
\* another request was using a token: the cache is empty and the Error carries
\* the 400.
C6_Witness ==
  \E i, j \in Lookups :
    /\ lookup[i].pc = "alt_wait"
    /\ lookup[i].caught.response
    /\ lookup[i].caught.status = 400
    /\ lookup[i].authError.message.status = 400
    /\ lookup[i].sent = clock
    /\ tokenCache = EmptyCache
    /\ lookup[j].pc = "api_wait"
    /\ lookup[j].accessToken \in Tokens

\* C7: a 2xx token answer without access_token or without expires_in makes
\* getAccessToken fail and leave the cache empty: no handler goes on with an
\* absent token, and the cache never holds an entry without a token or without
\* a well-defined expiry.
C7_MalformedBodyRejected ==
  /\ \A i \in Lookups : lookup[i].pc = "api_wait" => lookup[i].accessToken \in Tokens
  /\ \/ tokenCache = EmptyCache
     \/ tokenCache.accessToken \in Tokens /\ tokenCache.expiresAt.kind = "num"

\* C8: the cached token is usable exactly when a token is present and
\* now < expiresAt: a call on an empty cache or at now >= expiresAt sends a
\* token request, and after a token is stored with expires_in above the
\* 60-second margin a call made at once gets that token from the cache.
C8_UsableIffUnexpired ==
  [][/\ \A i \in Lookups :
          (EntersGetAccessToken(i) /\ ~HoldsValidToken) => lookup'[i].pc = "gat_wait"
     /\ \A i \in Lookups, body \in WellFormedBodies :
          ( /\ body.expires_in.val * MsPerSecond > SafetyMarginMs
            /\ GetAccessTokenResponse(i, body) \/ AlternativeResponse(i, body) ) =>
            /\ tokenCache'.accessToken = body.access_token
            /\ CacheUsable(tokenCache', clock')]_vars

\* C9: after a successful token exchange of getAccessToken or of
\* getAccessTokenAlternative the cache holds the access_token of that exchange
\* and expiresAt is the instant of storing plus expires_in seconds minus the
\* 60-second margin.
C9_ExpiresAtFromStoreTime ==
  [][\A i \in Lookups, body \in WellFormedBodies :
       (GetAccessTokenResponse(i, body) \/ AlternativeResponse(i, body)) =>
         /\ tokenCache'.accessToken = body.access_token
         /\ tokenCache'.expiresAt =
              Num(clock + body.expires_in.val * MsPerSecond - SafetyMarginMs)]_vars

\* A registration in normal form: upper case, no whitespace.
IsNormalized(registration) ==
  \A k \in 1..Len(registration) :
    /\ registration[k] \notin Whitespace
    /\ UpperChar(registration[k]) = registration[k]

\* C10: in /api/mot/:registration a final upstream 200 yields HTTP 200 with
\* success true, the upstream payload as data, the normalized registration and
\* a timestamp; a final upstream 404 yields HTTP 404 "Vehicle not found" with
\* the normalized registration.
C10_SuccessAndNotFound ==
  \A i \in Lookups :
    (lookup[i].pc = "done" /\ lookup[i].apiLog # <<>>) =>
      LET call == Last(lookup[i].apiLog)
          res == lookup[i].res
      IN  /\ (call.outcome = "response" /\ call.status = 200) =>
                /\ res.status = 200
                /\ res.success
                /\ res.data = Some(call.data)
                /\ call.data \in Payloads
                /\ res.registration = Some(lookup[i].registration)
                /\ IsNormalized(lookup[i].registration)
                /\ res.timestamp = Some(clock)
          /\ (call.outcome = "response" /\ call.status = 404) =>
                /\ res.status = 404
                /\ res.error = "Vehicle not found"
                /\ res.registration = Some(lookup[i].registration)
                /\ IsNormalized(lookup[i].registration)

\* One lookup has answered HTTP 200 with the payload p2 while another has
\* answered HTTP 404.
C10_Witness ==
  \E i, j \in Lookups :
    /\ lookup[i].pc = "done"
    /\ lookup[i].res.status = 200
    /\ lookup[i].res.data = Some("p2")
    /\ lookup[i].res.registration = Some(<<"A", "1">>)
    /\ lookup[j].pc = "done"
    /\ lookup[j].res.status = 404

\* C11: in /api/mot/:registration a vehicle-data request that has had no
\* answer when its 15 s are over ends the lookup with HTTP 408 "Request
\* timeout" and the registration, and no other outcome of a lookup is answered
\* with status 408 or with that error.
C11_TimeoutIs408 ==
  [][\A i \in Lookups :
       Responds(i) =>
         LET timedOut == /\ lookup[i].pc = "api_wait"
                         /\ clock - lookup[i].sent >= ApiTimeoutMs
             res == lookup'[i].res
         IN  /\ timedOut =>
                  /\ res.status = 408
                  /\ res.error = "Request timeout"
                  /\ res.registration = Some(lookup[i].registration)
                  /\ ~res.success
                  /\ Last(lookup'[i].apiLog).outcome = "timeout"
             /\ (res.status = 408 \/ res.error = "Request timeout") => timedOut]_vars

\* A lookup whose vehicle-data request was never answered has sent HTTP 408,
\* at least 15 s after the first request arrived.
C11_Witness ==
  \E i \in Lookups :
    /\ lookup[i].pc = "done"
    /\ lookup[i].apiLog # <<>>
    /\ Last(lookup[i].apiLog).outcome = "timeout"
    /\ lookup[i].res.status = 408
    /\ lookup[i].res.error = "Request timeout"
    /\ clock >= T0 + ApiTimeoutMs

\* C12: in /api/mot/:registration every final upstream status other than 200,
\* 404, 401 and 403 is answered with HTTP 500, error "Failed to fetch MOT data"
\* and the registration.
C12_GenericUpstreamFailure ==
  \A i \in Lookups :
    ( /\ lookup[i].pc = "done"
      /\ lookup[i].apiLog # <<>>
      /\ Last(lookup[i].apiLog).outcome = "response"
      /\ Last(lookup[i].apiLog).status \notin {200, 404, 401, 403} ) =>
      /\ lookup[i].res.status = 500
      /\ lookup[i].res.error = "Failed to fetch MOT data"
      /\ lookup[i].res.registration = Some(lookup[i].registration)

\* C13: when the token acquisition of a lookup fails (no token request of the
\* lookup was answered with a token, so that nothing was sent to the
\* vehicle-data endpoint), the response is HTTP 500 with error "API access
\* denied" or "Authentication failed" and the registration.
C13_AuthDeniedEnvelope ==
  \A i \in Lookups :
    ( /\ lookup[i].pc = "done"
      /\ lookup[i].nExch > 0
      /\ lookup[i].apiLog = <<>> ) =>
      /\ lookup[i].res.status = 500
      /\ lookup[i].res.error \in {"API access denied", "Authentication failed"}
      /\ lookup[i].res.registration = Some(lookup[i].registration)

\* C14: on /api/mot/:registration and on /test-mot-api/:registration a request
\* with a well-formed registration that arrives while client id, client
\* secret, API key or token URL is missing is answered HTTP 500 in the same
\* run, without any network request and with the token cache left as it was.
C14_ConfigCheckedFirst ==
  [][/\ \A i \in Lookups :
          ( /\ lookup[i].pc = "idle"
            /\ lookup'[i].pc # "idle"
            /\ validateRegistration(lookup'[i].registration)
            /\ ConfigMissing(AUTH_CONFIG) ) =>
            /\ lookup'[i].pc = "done"
            /\ lookup'[i].res = ConfigErrorResponse
            /\ lookup'[i].nExch = 0
            /\ lookup'[i].apiLog = <<>>
            /\ tokenCache' = tokenCache
     /\ ( /\ tm.pc = "idle"
          /\ tm'.pc # "idle"
          /\ validateRegistration(tm'.registration)
          /\ ConfigMissing(AUTH_CONFIG) ) =>
          /\ tm'.pc = "done"
          /\ tm'.res.status = 500
          /\ tm'.nReq = 0
          /\ tokenCache' = tokenCache]_vars

\* The strings a response of /api/mot/:registration carries.
LookupResponseTexts(res) ==
  {res.error, res.details.text} \cup {res.data[k] : k \in 1..Len(res.data)}

\* C16: no response of /api/mot/:registration, /test-mot-api/:registration or
\* /test-auth carries an access token (the settings of AUTH_CONFIG appear in
\* the responses as booleans only).
C16_NoTokenInResponse ==
  /\ \A i \in Lookups : LookupResponseTexts(lookup[i].res) \cap Tokens = {}
  /\ tm.res.errorDetails.text \notin Tokens
  /\ ta.res.rawResponse.access_token \notin Tokens
  /\ ta.res.standardAuthError.text \notin Tokens
  /\ ta.res.alternativeAuthError.text \notin Tokens

\* The details a response may carry when every failure is converted to a fixed
\* message: none, or the fixed text of the handler.
FixedDetails == {NoMsg, Msg("Unauthorized access", 0)}

\* C17: no response carries the message of an exception or an error body of
\* the token endpoint or of the vehicle-data endpoint: the fields that
\* describe a failure are absent or hold a fixed text.
C17_NoRawErrorInResponse ==
  /\ \A i \in Lookups : lookup[i].res.details \in FixedDetails
  /\ tm.res.errorDetails = NoMsg
  /\ ta.res.standardAuthError = NoMsg
  /\ ta.res.alternativeAuthError = NoMsg

\* Two characters that are equal up to letter case.
SameLetter(c, d) == UpperChar(c) = UpperChar(d)

RECURSIVE SameUpToCaseAndSpace(_, _)
\* Two raw registrations that differ only in letter case and in whitespace.
SameUpToCaseAndSpace(a, b) ==
  IF a # <<>> /\ Head(a) \in Whitespace THEN SameUpToCaseAndSpace(Tail(a), b)
  ELSE IF b # <<>> /\ Head(b) \in Whitespace THEN SameUpToCaseAndSpace(a, Tail(b))
  ELSE IF a = <<>> \/ b = <<>> THEN a = b
  ELSE SameLetter(Head(a), Head(b)) /\ SameUpToCaseAndSpace(Tail(a), Tail(b))

\* C15: in every lookup route normalization is idempotent, and two raw
\* registrations that differ only in letter case and in whitespace get the
\* same upper-case, whitespace-free registration and the same upstream query
\* parameters.
C15_NormalizationCanonical ==
  nz.pc = "done" =>
    /\ nz.againA = nz.regA
    /\ SameUpToCaseAndSpace(nz.a, nz.b) =>
         /\ nz.regA = nz.regB
         /\ IsNormalized(nz.regA)
         /\ nz.queryA = nz.queryB

\* C18: a lookup that finds no usable token sends its own token request,
\* whether or not another lookup is waiting for one, and one only per call of
\* getAccessToken; when such an exchange succeeds the cache holds the token of
\* that exchange, whatever was stored before, the lookup goes on with that
\* token, and the tokens the other lookups hold are left alone.  So after the
\* last of several successful exchanges the cache holds the token of the last.
C18_EachExchangesLastWins ==
  [][\A i \in Lookups :
       /\ (EntersGetAccessToken(i) /\ ~HoldsValidToken) =>
            /\ lookup'[i].pc = "gat_wait"
            /\ lookup'[i].nExch = 1
            /\ lookup'[i].sent = clock
       /\ \A body \in WellFormedBodies :
            GetAccessTokenResponse(i, body) =>
              /\ tokenCache'.accessToken = body.access_token
              /\ lookup'[i].pc = "api_wait"
              /\ lookup'[i].accessToken = body.access_token
              /\ lookup'[i].nExch = 1
              /\ \A j \in Lookups \ {i} :
                   /\ lookup'[j].accessToken = lookup[j].accessToken
                   /\ lookup'[j].nExch = lookup[j].nExch]_vars

\* Two lookups sent their token requests while both were waiting; both
\* exchanges succeeded with different tokens; each lookup goes on with its own
\* and the cache holds that of the exchange that completed last.
C18_Witness ==
  \E i, j \in Lookups :
    /\ lookup[i].pc = "api_wait" /\ lookup[j].pc = "api_wait"
    /\ lookup[i].nExch = 1 /\ lookup[j].nExch = 1
    /\ lookup[i].raced \/ lookup[j].raced
    /\ lookup[i].sent < lookup[j].sent
    /\ lookup[i].accessToken \in Tokens
    /\ lookup[j].accessToken \in Tokens \ {lookup[i].accessToken}
    /\ tokenCache.accessToken = lookup[j].accessToken

\* C19: when the token request of getAccessToken fails while the cache holds
\* an unexpired token (which another lookup's exchange has stored since this
\* one found the cache unusable), the cache is left as it is.
C19_FailureKeepsStoredToken ==
  [][\A i \in Lookups :
       ( /\ lookup[i].pc = "gat_wait"
         /\ lookup'[i].pc \notin {"gat_wait", "api_wait"}
         /\ HoldsValidToken ) =>
         tokenCache' = tokenCache]_vars

\* The token request of request i has had no answer when its 10 s are over.
TokenRequestOverdue(i) ==
  /\ lookup[i].pc \in {"gat_wait", "alt_wait"}
  /\ clock - lookup[i].sent >= TokenTimeoutMs

\* Request i takes a step of its handler.
Moves(i) == <<lookup'[i].pc, lookup'[i].sent>> # <<lookup[i].pc, lookup[i].sent>>

C21_EveryHandlerInvalidates ==
  [][/\ \A i \in Lookups :
          ( /\ lookup[i].pc = "api_wait"
            /\ Responds(i)
            /\ Last(lookup'[i].apiLog).outcome = "response"
            /\ Last(lookup'[i].apiLog).status \in {401, 403} ) =>
            tokenCache' = EmptyCache
     /\ ( /\ tm.pc = "api_wait"
          /\ tm'.pc = "done"
          /\ tm'.res.statusCode \in {Num(401), Num(403)} ) =>
          tokenCache' = EmptyCache]_vars

\* C22: the token cache changes only in a step of getAccessToken or of
\* getAccessTokenAlternative, that is when the token request of one of them
\* is answered, fails or times out.
C22_OnlyAcquirerWritesCache ==
  [][tokenCache' # tokenCache =>
       \/ \E i \in Lookups : lookup[i].pc \in {"gat_wait", "alt_wait"} /\ Moves(i)
       \/ tm.pc = "gat_wait" /\ tm'.pc # "gat_wait"]_vars

\* The tester GET /test-scopes/:registration takes a step.
ScopesMoves == <<ts'.pc, ts'.idx>> # <<ts.pc, ts.idx>>

\* C23: in GET /test-scopes/:registration, when the call with the API key of a
\* scope ends, a call without x-api-key is sent if and only if it failed with
\* HTTP 403, with the same scope, bearer token and registration; it is the
\* only one for that scope, its outcome goes under withoutApiKey and the
\* withApiKey record stays as it was.
C23_NoKeyRetryIff403 ==
  [][/\ (ts.pc = "withkey_wait" /\ ScopesMoves) =>
          LET sent == ts'.pc = "nokey_wait"
              first == ts.log[1]
              entry == Last(ts'.results)
          IN  /\ entry.withApiKey.present
              /\ ~entry.withoutApiKey.present
              /\ sent <=> (~entry.withApiKey.success /\ entry.withApiKey.status = 403)
              /\ sent =>
                   /\ ts'.idx = ts.idx
                   /\ Len(ts'.log) = 2
                   /\ ts'.log[1].outcome = "response" /\ ts'.log[1].status = 403
                   /\ ~ts'.log[2].withKey
                   /\ ts'.log[2].token = first.token
                   /\ ts'.log[2].registration = first.registration
                   /\ ts'.log[2].scope = first.scope
     /\ (ts.pc = "nokey_wait" /\ ScopesMoves) =>
          LET k == Len(ts.results)
          IN  /\ ts'.pc # "nokey_wait"
              /\ Len(ts'.results) = k
              /\ ts'.results[k].withoutApiKey.present
              /\ ts'.results[k].withApiKey = ts.results[k].withApiKey
              /\ ts'.results[k].key = ts.results[k].key
     /\ (ts.pc \notin {"withkey_wait", "nokey_wait"}) => ts'.pc # "nokey_wait"]_vars

\* The tester has ended: for the first scope the call with the API key failed
\* with 403 and the call without it succeeded; for the second the call with
\* the key failed with 401 and no call without it was made.
C23_Witness ==
  /\ ts.pc = "done"
  /\ Len(ts.results) >= 2
  /\ ts.results[1].withApiKey = ApiResult(FALSE, 403)
  /\ ts.results[1].withoutApiKey = ApiResult(TRUE, 200)
  /\ ts.results[2].withApiKey = ApiResult(FALSE, 401)
  /\ ~ts.results[2].withoutApiKey.present

\* Request i sends its response to an upstream answer with one of statuses.
AnswersUpstream(i, statuses) ==
  /\ lookup[i].pc = "api_wait"
  /\ Responds(i)
  /\ Last(lookup'[i].apiLog).outcome = "response"
  /\ Last(lookup'[i].apiLog).status \in statuses

\* C24: the token cache of server.js goes from holding a token to being empty
\* only when the token request of getAccessToken fails or when
\* /api/mot/:registration handles an upstream 401 or 403; a lookup that
\* responds to anything else (upstream 200, 404, 429 or another status, a
\* timeout or a network failure, an invalid registration, a missing setting)
\* leaves the cache as it is in the step that responds.
C24_CacheEmptiedOnlyBy ==
  [][/\ (tokenCache # EmptyCache /\ tokenCache' = EmptyCache) =>
          \/ \E i \in Lookups : lookup[i].pc = "gat_wait" /\ lookup'[i].pc = "alt_wait"
          \/ \E i \in Lookups : AnswersUpstream(i, {401, 403})
          \/ tm.pc = "gat_wait" /\ tm'.pc = "done"
     /\ \A i \in Lookups :
          (Responds(i) /\ ~AnswersUpstream(i, {401, 403})) => tokenCache' = tokenCache]_vars

\* A lookup was answered 429 by the vehicle-data endpoint and another lookup
\* has started since on the token the first one had cached.
C24_Witness ==
  \E i, j \in Lookups :
    /\ lookup[i].pc = "done"
    /\ lookup[i].nExch = 1
    /\ lookup[i].res.status = 429
    /\ lookup[j].pc = "api_wait"
    /\ lookup[j].nExch = 0
    /\ lookup[j].accessToken = tokenCache.accessToken
    /\ HoldsValidToken
    /\ started = 2

\* C25: when /api/mot/:registration handles an upstream 401 or 403 the cache
\* is emptied whatever it holds, also when it holds a token other than the one
\* the failed call was sent with.
C25_ClearIsUnconditional ==
  [][\A i \in Lookups :
       AnswersUpstream(i, {401, 403}) =>
         /\ tokenCache' = EmptyCache
         /\ lookup'[i].removedOther <=>
              /\ TokTruthy(tokenCache.accessToken)
              /\ tokenCache.accessToken # lookup[i].accessToken]_vars

\* A lookup was answered 403 after another lookup's exchange had replaced the
\* token in the cache: the cache is empty although the other lookup goes on
\* with the token it stored.
C25_Witness ==
  \E i, j \in Lookups :
    /\ lookup[i].pc = "done"
    /\ lookup[i].removedOther
    /\ Last(lookup[i].apiLog).status = 403
    /\ lookup[i].res.error = "Authentication failed"
    /\ tokenCache = EmptyCache
    /\ lookup[j].pc = "api_wait"
    /\ lookup[j].nExch = 1
    /\ lookup[j].accessToken \in Tokens

\* The details of the response built from the Error getAccessToken threw for
\* the error it caught.
DetailsOfCaught(caught) ==
  IF caught.response
  THEN Msg("Authentication failed", caught.status)
  ELSE Msg("Failed to authenticate with DVSA API", 0)

\* What C26 says of the token requests of a lookup, but for the cache after
\* the alternative failed.
AlternativeTriedOnce(i) ==
  /\ (lookup[i].pc = "gat_wait" /\ lookup'[i].pc \notin {"gat_wait", "api_wait"}) =>
       /\ lookup'[i].pc = "alt_wait"
       /\ lookup'[i].nExch = 2
  /\ (lookup[i].pc = "alt_wait" /\ Moves(i)) =>
       /\ lookup'[i].pc \in {"api_wait", "done"}
       /\ lookup'[i].nExch = 2
  /\ \A body \in WellFormedBodies :
       AlternativeResponse(i, body) =>
         /\ tokenCache'.accessToken = body.access_token
         /\ lookup'[i].pc = "api_wait"
         /\ lookup'[i].accessToken = body.access_token
         /\ Len(lookup'[i].apiLog) = 1
  /\ (lookup[i].pc = "alt_wait" /\ Responds(i)) =>
       /\ tokenCache' = tokenCache
       /\ lookup'[i].apiLog = <<>>
       /\ lookup'[i].res.status = 500
       /\ lookup'[i].res.error = "Internal server error"
       /\ lookup'[i].res.details = DetailsOfCaught(lookup[i].caught)

\* C26 as stated: after getAccessToken fails getAccessTokenAlternative is
\* tried exactly once; its success is cached and the lookup goes on with its
\* token; its failure leaves the cache as getAccessToken left it, empty, and
\* the response is built from the error of getAccessToken.
C26_AlternativeOnceCacheEmpty ==
  [][\A i \in Lookups :
       /\ AlternativeTriedOnce(i)
       /\ (lookup[i].pc = "alt_wait" /\ Responds(i)) => tokenCache' = EmptyCache]_vars

\* C26 amended: as above, but the failing alternative leaves the cache as it
\* finds it: empty unless the exchange of another request has stored a token
\* since getAccessToken failed.
C26_AlternativeOnceCacheKept ==
  [][\A i \in Lookups :
       /\ AlternativeTriedOnce(i)
       /\ (lookup[i].pc = "alt_wait" /\ Responds(i)) =>
            (tokenCache' = EmptyCache \/ lookup[i].storedSince)]_vars

\* The only lookup of the run was refused with 400 by the token endpoint in
\* getAccessToken and got no answer in getAccessTokenAlternative: its response
\* carries the 400, not the timeout.
C26_Witness ==
  \E i \in Lookups :
    /\ lookup[i].pc = "done"
    /\ lookup[i].nExch = 2
    /\ lookup[i].res.details = Msg("Authentication failed", 400)
    /\ lookup[i].res.error = "Internal server error"
    /\ tokenCache = EmptyCache
    /\ started = 1
    /\ clock >= T0 + 2 * TokenTimeoutMs

\* C27: when a token answer of getAccessToken carries expires_in of at most
\* 60 seconds the caller still gets the new token, but the stored expiresAt is
\* not later than the start of the call, hence not later than the clock from
\* then on; and a call of getAccessToken that finds an expiresAt not later
\* than the clock sends a new token request.
C27_ShortLivedNeverHit ==
  [][/\ clock' >= clock
     /\ \A i \in Lookups :
          /\ \A body \in WellFormedBodies :
               ( /\ body.expires_in.val * MsPerSecond <= SafetyMarginMs
                 /\ GetAccessTokenResponse(i, body) ) =>
                 /\ lookup'[i].pc = "api_wait"
                 /\ lookup'[i].accessToken = body.access_token
                 /\ tokenCache'.accessToken = body.access_token
                 /\ tokenCache'.expiresAt.kind = "num"
                 /\ tokenCache'.expiresAt.val <= lookup[i].sent
                 /\ lookup[i].sent <= clock'
          /\ ( /\ EntersGetAccessToken(i)
               /\ tokenCache.expiresAt.kind = "num"
               /\ tokenCache.expiresAt.val <= clock ) =>
               /\ lookup'[i].pc = "gat_wait"
               /\ lookup'[i].nExch = 1]_vars

\* A lookup goes on with the token its exchange returned, the cache holds that
\* token with an expiresAt not later than the clock, and a lookup that arrived
\* afterwards has sent a token request of its own.
C27_Witness ==
  \E i, j \in Lookups :
    /\ lookup[i].pc = "api_wait"
    /\ lookup[i].nExch = 1
    /\ lookup[i].accessToken \in Tokens
    /\ tokenCache.accessToken = lookup[i].accessToken
    /\ tokenCache.expiresAt.kind = "num"
    /\ tokenCache.expiresAt.val <= lookup[i].sent
    /\ lookup[j].pc = "gat_wait"
    /\ lookup[j].sent > lookup[i].sent
    /\ ~lookup[i].raced /\ ~lookup[j].raced

\* The statuses C28 allows.
LookupStatuses == {200, 400, 404, 408, 429, 500}

\* C28: a request to /api/mot/:registration gets one response, with a status
\* among 200, 400, 404, 408, 429 and 500; 400 is sent exactly when the
\* normalized registration fails validation, whatever the configuration is,
\* before any network request and without a change of the token cache.
C28_OneResponseAnd400 ==
  [][\A i \in Lookups :
       /\ lookup[i].pc # "done" => lookup[i].res = NoResponse
       /\ Responds(i) => lookup'[i].res.status \in LookupStatuses
       /\ lookup[i].pc = "done" =>
            \/ lookup'[i].pc = "done" /\ lookup'[i].res = lookup[i].res
            \/ lookup'[i] = IdleLookup
       /\ (Responds(i) /\ lookup'[i].res.status = 400) <=>
            ( /\ lookup[i].pc = "idle"
              /\ lookup'[i].pc # "idle"
              /\ ~validateRegistration(lookup'[i].registration) )
       /\ (Responds(i) /\ lookup'[i].res.status = 400) =>
            /\ lookup'[i].res.error = "Invalid registration format"
            /\ lookup'[i].res.registration = Some(lookup'[i].registration)
            /\ lookup'[i].nExch = 0
            /\ lookup'[i].apiLog = <<>>
            /\ tokenCache' = tokenCache]_vars

\* A registration that fails validation was answered 400 by a server whose
\* credentials are not configured.
C28_Witness ==
  \E i \in Lookups :
    /\ lookup[i].pc = "done"
    /\ lookup[i].res.status = 400
    /\ ~validateRegistration(lookup[i].registration)
    /\ ConfigMissing(AUTH_CONFIG)
    /\ lookup[i].nExch = 0
    /\ tokenCache = EmptyCache

\* The positions of the scope list whose call with the API key or whose call
\* without it is recorded as a success in results.
SucceededAt(results) ==
  { k \in 1..Len(results) :
      \/ results[k].withApiKey = ApiResult(TRUE, 200)
      \/ results[k].withoutApiKey = ApiResult(TRUE, 200) }

AcquiredAt(results) == { k \in 1..Len(results) : results[k].acquired }

\* The least element of a non-empty set of positions.
First(S) == CHOOSE k \in S : \A m \in S : k <= m

\* The recommendation C30 describes.
RecommendationFor(results) ==
  IF SucceededAt(results) # {}
  THEN [text |-> "Use scope: ", status |-> ScopeKey(ScopeList[First(SucceededAt(results))])]
  ELSE IF AcquiredAt(results) # {}
  THEN [text |-> "Token obtained but API access denied. Contact DVSA for access.",
        status |-> ""]
  ELSE [text |-> "Authentication failed. Check credentials.", status |-> ""]

\* C30: GET /test-scopes/:registration sends the token request of every scope
\* of the list once, in list order, whatever became of the scopes before it;
\* the keys of the scopes are distinct; and in the response successfulScopes
\* is the set of the scopes with a successful call, with or without the API
\* key, and the recommendation is the one C30 describes.
C30_EveryScopeAndRecommendation ==
  [][/\ \A a, b \in 1..Len(scopesToTry) :
          ScopeKey(scopesToTry[a]) = ScopeKey(scopesToTry[b]) => a = b
     /\ (ts'.pc = "token_wait" /\ ts' # ts) =>
          /\ ts.pc # "done"
          /\ ts'.idx = ts.idx + 1
          /\ ts'.idx = Len(ts'.results) + 1
          /\ ts'.idx <= Len(ScopeList)
     /\ ts'.idx # ts.idx => (ts'.pc = "token_wait" \/ ts' = IdleScopes)
     /\ (ts'.pc = "done" /\ ts.pc # "done") =>
          /\ ts.idx = Len(ScopeList)
          /\ Len(ts'.results) = Len(ScopeList)
          /\ \A k \in 1..Len(ScopeList) : ts'.results[k].key = ScopeKey(ScopeList[k])
          /\ ts'.res.sent
          /\ { ts'.res.successfulScopes[n] : n \in 1..Len(ts'.res.successfulScopes) }
               = { ScopeKey(ScopeList[k]) : k \in SucceededAt(ts'.results) }
          /\ Len(ts'.res.successfulScopes) = Cardinality(SucceededAt(ts'.results))
          /\ ts'.res.recommendation = RecommendationFor(ts'.results)]_vars

\* The first scope got a token and was refused with and without the API key;
\* the second was refused with the key and served without it, and is the one
\* recommended.
C30_Witness ==
  /\ ts.pc = "done"
  /\ Len(ts.results) >= 2
  /\ ts.results[1].acquired
  /\ ts.results[1].withApiKey = ApiResult(FALSE, 403)
  /\ ts.results[1].withoutApiKey = ApiResult(FALSE, 403)
  /\ ts.results[2].withApiKey = ApiResult(FALSE, 403)
  /\ ts.results[2].withoutApiKey = ApiResult(TRUE, 200)
  /\ ts.res.recommendation = [text |-> "Use scope: ", status |-> ScopeKey(scopesToTry[2])]
  /\ ts.res.successfulScopes = <<ScopeKey(scopesToTry[2])>>

\* C29: when a browser-automation route sends its response, the browser it
\* launched for the request has been closed, and so no browser launched by a
\* request answered earlier is running.
C29_BrowserClosedAtResponse ==
  /\ bw.pc = "done" => bw.browser # "open"
  /\ bw.pc \in {"idle", "done"} => bw.running = 0

====
